---- MODULE Spec2Model ----
(***************************************************************************)
(* A model of src/main.rs: the ReportingAllocator (the process-wide        *)
(* GlobalAlloc that forwards to System and prints one line per alloc),     *)
(* Particle (new / update) and World (new / add_shapes / remove_shapes /   *)
(* update).                                                                *)
(*                                                                         *)
(* Numbers.  color is [f32; 4]: an f32 is modelled exactly, as a 24-bit    *)
(* mantissa m and an exponent e with value m * 2^(e-24), and products are  *)
(* rounded to nearest-even as the hardware does.  The f64 quantities       *)
(* (position, velocity, acceleration, bounds) are kept in thousandths.     *)
(* Addresses are positive integers, 0 is the null pointer.  The random     *)
(* generator is the environment: every draw is an input of the action.     *)
(* The Instant timestamps of alloc are not modelled (no claim reads the    *)
(* duration).                                                              *)
(***************************************************************************)
EXTENDS Integers, Sequences, FiniteSets, TLC

VARIABLES
    current_turn,   \* World.current_turn
    particles,      \* World.particles : Vec<Box<Particle>>, front first
    height,         \* World.height
    width,          \* World.width
    buf,            \* the Vec's backing storage: [ptr, cap]
    heap,           \* the platform allocator's live blocks: address -> size
    log,            \* the calls that reached ReportingAllocator in the last operation
    status,         \* "running", "panicked" (Vec::remove out of range), "aborted" (alloc failure)
    last,           \* the last operation called, its argument or random draw, the boxes
                    \* it removed and the number of times it grew the Vec's buffer
    scan            \* the collection as the policy of the comment at lines 125-126 would leave it

vars == <<current_turn, particles, height, width, buf, heap, log, status, last, scan>>

\* ---------------------------------------------------------------- bounds

\* add_shapes is not called when it would take the population above this.
MaxParticles == 3
\* update is called at most this many times from an initial state.
MaxTurn == 3
\* The largest n of a direct add_shapes / remove_shapes call.
MaxCall == 2
\* The largest N of main's add_shapes(N), and the population main's loop may reach.
MainShapes == 5
\* Particle::update is called at most this many times on one particle when it is
\* followed alone.
MaxUpdates == 800
\* Initial states include a world that has idled (draw 0) for this many ticks.
AgedTurns == 777

\* ---------------------------------------------------------------- numbers

Abs(n) == IF n < 0 THEN -n ELSE n

Max(a, b) == IF a >= b THEN a ELSE b

\* An f64 of the source, in thousandths.
Fx(n) == n * 1000

RECURSIVE DivBits(_, _, _, _)
\* floor(r * 2^n / den) and the remainder, for r < den, by long division.
DivBits(r, den, n, acc) ==
    IF n = 0 THEN [q |-> acc, r |-> r]
    ELSE IF 2 * r >= den THEN DivBits(2 * r - den, den, n - 1, 2 * acc + 1)
         ELSE DivBits(2 * r, den, n - 1, 2 * acc)

RECURSIVE Normalise(_, _, _)
\* Scales num/den < 1 into [1/2, 1) and counts the exponent.
Normalise(num, den, e) ==
    IF 2 * num >= den THEN [num |-> num, e |-> e] ELSE Normalise(2 * num, den, e - 1)

\* Round to nearest, ties to even, already decided in `up`; renormalise on carry.
F32Round(q, up, e) ==
    IF ~up THEN [m |-> q, e |-> e]
    ELSE IF q + 1 = 2^24 THEN [m |-> 2^23, e |-> e + 1]
    ELSE [m |-> q + 1, e |-> e]

\* The f32 the compiler stores for the decimal literal num/den, 0 < num/den < 1.
F32Lit(num, den) ==
    LET nz == Normalise(num, den, 0)
        d  == DivBits(nz.num, den, 24, 0)
    IN F32Round(d.q, 2 * d.r > den \/ (2 * d.r = den /\ d.q % 2 = 1), nz.e)

\* 1.0f32
F32One == [m |-> 2^23, e |-> 1]

\* The f32 product x * y, one rounding.  The 48-bit product of the mantissas is
\* H * 2^24 + Lo, assembled from 12-bit halves.
F32Mul(x, y) ==
    LET a1  == x.m \div 4096
        b1  == x.m % 4096
        a2  == y.m \div 4096
        b2  == y.m % 4096
        mid == a1 * b2 + a2 * b1
        L   == (mid % 4096) * 4096 + b1 * b2
        H   == a1 * a2 + (mid \div 4096) + (L \div 2^24)
        Lo  == L % 2^24
    IN IF H >= 2^23
       THEN F32Round(H, Lo > 2^23 \/ (Lo = 2^23 /\ H % 2 = 1), x.e + y.e)
       ELSE LET q == 2 * H + (Lo \div 2^23)
                r == Lo % 2^23
            IN F32Round(q, r > 2^22 \/ (r = 2^22 /\ q % 2 = 1), x.e + y.e - 1)

\* x < y on positive normal f32.
F32Lt(x, y) == x.e < y.e \/ (x.e = y.e /\ x.m < y.m)

F32Le(x, y) == x = y \/ F32Lt(x, y)

\* ---------------------------------------------------------------- Particle

\* color[3] at creation.
InitialAlpha == F32Lit(99, 100)

\* The factor of `self.color[3] *= 0.995`.
Fade == F32Lit(995, 1000)

\* The literal of `particle.color[3] < 0.02`.
Invisible == F32Lit(2, 100)

\* size_of::<Particle>(): two f64, three Vec2d<f64>, one [f32; 4].
ParticleSize == 8 + 8 + 16 + 16 + 16 + 4 * 4

\* size_of::<Box<Particle>>(), the element size of the Vec.
PtrSize == 8

\* The three draws of Particle::new: x in [0, width], y velocity in [-2, 0),
\* y acceleration in [0, 0.15).  Two of them, at the ends of the ranges.
ParticleDraws(w) ==
    { [x |-> 0, vy |-> Fx(-2), ay |-> 149],
      [x |-> w, vy |-> -1, ay |-> 0] }

\* One of them, for the specifications whose claims never read the motion.
OneDraw(w) == { [x |-> w \div 2, vy |-> Fx(-1), ay |-> 75] }

Particle_new(world, d) ==
    [ height       |-> Fx(4),
      width        |-> Fx(4),
      position     |-> <<d.x, world.height>>,
      velocity     |-> <<0, d.vy>>,
      acceleration |-> <<0, d.ay>>,
      color        |-> <<F32One, F32One, F32One, InitialAlpha>> ]

add(a, b) == <<a[1] + b[1], a[2] + b[2]>>

\* acceleration is never negative, so \div truncates toward zero as a cast would.
mul_scalar(a, num, den) == <<(a[1] * num) \div den, (a[2] * num) \div den>>

\* update that fades by the creation alpha, 0.99, instead of 0.995.
Particle_update_099(p) ==
    LET v == <<p.velocity[1] + p.acceleration[1], p.velocity[2] + p.acceleration[2]>>
    IN [p EXCEPT !.velocity     = v,
                 !.position     = <<p.position[1] + v[1], p.position[2] + v[2]>>,
                 !.acceleration = <<(p.acceleration[1] * 7) \div 10, (p.acceleration[2] * 7) \div 10>>,
                 !.color[4]     = F32Mul(p.color[4], InitialAlpha)]

Particle_update(p) ==
    LET v == add(p.velocity, p.acceleration)
    IN [p EXCEPT !.velocity     = v,
                 !.position     = add(p.position, v),
                 !.acceleration = mul_scalar(p.acceleration, 7, 10),
                 !.color[4]     = F32Mul(p.color[4], Fade)]

Alpha(b) == b.p.color[4]

\* ---------------------------------------------------------------- allocator

\* System.alloc: the lowest free address, or null when the platform refuses.
\* W.fail numbers the request of this operation that is refused (0: none).
System_alloc(W, size) ==
    IF W.allocs + 1 = W.fail THEN 0
    ELSE CHOOSE a \in 1..(Cardinality(DOMAIN W.heap) + 1) :
            /\ a \notin DOMAIN W.heap
            /\ \A c \in 1..(a - 1) : c \in DOMAIN W.heap

\* alloc that prints only when the platform returned a block.
alloc_quiet_on_null(W, size) ==
    LET ptr == System_alloc(W, size)
    IN [W EXCEPT
          !.heap   = IF ptr = 0 THEN @
                     ELSE [a \in DOMAIN @ \cup {ptr} |-> IF a = ptr THEN size ELSE @[a]],
          !.allocs = @ + 1,
          !.log    = Append(@, [ call   |-> "alloc",
                                 size   |-> size,
                                 ptr    |-> 0,
                                 system |-> <<[fn |-> "alloc", size |-> size, ptr |-> ptr]>>,
                                 stderr |-> IF ptr = 0 THEN <<>> ELSE <<size>>,
                                 ret    |-> ptr ]),
          !.ret    = ptr]

\* ReportingAllocator::alloc: delegate, print, return the pointer.
alloc(W, size) ==
    LET ptr == System_alloc(W, size)
        bytes_requested == size
    IN [W EXCEPT
          !.heap   = IF ptr = 0 THEN @
                     ELSE [a \in DOMAIN @ \cup {ptr} |-> IF a = ptr THEN size ELSE @[a]],
          !.allocs = @ + 1,
          !.log    = Append(@, [ call   |-> "alloc",
                                 size   |-> size,
                                 ptr    |-> 0,
                                 system |-> <<[fn |-> "alloc", size |-> size, ptr |-> ptr]>>,
                                 stderr |-> <<bytes_requested>>,
                                 ret    |-> ptr ]),
          !.ret    = ptr]

\* ReportingAllocator::dealloc: delegate, print nothing.
dealloc(W, ptr, size) ==
    [W EXCEPT
       !.heap = [a \in DOMAIN @ \ {ptr} |-> @[a]],
       !.log  = Append(@, [ call   |-> "dealloc",
                            size   |-> size,
                            ptr    |-> ptr,
                            system |-> <<[fn |-> "dealloc", size |-> size, ptr |-> ptr]>>,
                            stderr |-> <<>>,
                            ret    |-> 0 ])]

\* GlobalAlloc::realloc is not overridden: the provided method allocates the new
\* block through alloc, copies, and frees the old block through dealloc.
realloc(W, ptr, old_size, new_size) ==
    LET W1 == alloc(W, new_size)
    IN IF W1.ret = 0 THEN W1
       ELSE [dealloc(W1, ptr, old_size) EXCEPT !.ret = W1.ret]

\* handle_alloc_error: the process aborts.
Abort(W) == [W EXCEPT !.status = "aborted"]

\* ---------------------------------------------------------------- Vec<Box<Particle>>

\* Box::new(particle): one allocation of the particle's size.
Box_new(W, particle) ==
    LET W1 == alloc(W, ParticleSize)
    IN IF W1.ret = 0 THEN Abort(W1)
       ELSE [W1 EXCEPT !.box = [ptr |-> W1.ret, p |-> particle,
                                born |-> W.current_turn, updates |-> 0]]

\* insert(0, box) instead of push(box): the element goes to the front.
Vec_push_front(W, box) ==
    LET len == Len(W.particles)
        cap == W.buf.cap
        new_cap == Max(Max(2 * cap, len + 1), 4)
        W1  == IF len < cap THEN W
               ELSE IF cap = 0 THEN alloc(W, new_cap * PtrSize)
               ELSE realloc(W, W.buf.ptr, cap * PtrSize, new_cap * PtrSize)
    IN IF len = cap /\ W1.ret = 0 THEN Abort(W1)
       ELSE [W1 EXCEPT !.buf       = IF len < cap THEN @ ELSE [ptr |-> W1.ret, cap |-> new_cap],
                       !.grown     = IF len < cap THEN @ ELSE @ + 1,
                       !.particles = <<box>> \o @,
                       !.scan      = <<box>> \o @]

\* Vec::push: grows the buffer when it is full (amortised doubling, at least 4
\* elements), then writes the element at the end.
Vec_push(W, box) ==
    LET len == Len(W.particles)
        cap == W.buf.cap
        new_cap == Max(Max(2 * cap, len + 1), 4)
        W1  == IF len < cap THEN W
               ELSE IF cap = 0 THEN alloc(W, new_cap * PtrSize)
               ELSE realloc(W, W.buf.ptr, cap * PtrSize, new_cap * PtrSize)
    IN IF len = cap /\ W1.ret = 0 THEN Abort(W1)
       ELSE [W1 EXCEPT !.buf       = IF len < cap THEN @ ELSE [ptr |-> W1.ret, cap |-> new_cap],
                       !.grown     = IF len < cap THEN @ ELSE @ + 1,
                       !.particles = Append(@, box),
                       !.scan      = Append(@, box)]

RemoveAt(s, i) == SubSeq(s, 1, i) \o SubSeq(s, i + 2, Len(s))

\* Vec::remove(i) whose Box is leaked instead of dropped.
Vec_remove_leak(W, i) ==
    IF i >= Len(W.particles) THEN [W EXCEPT !.status = "panicked"]
    ELSE [W EXCEPT !.particles = SubSeq(@, 1, i) \o SubSeq(@, i + 2, Len(@)),
                   !.removed   = Append(@, W.particles[i + 1])]

\* Vec::remove(i), i counted from 0, and the drop of the Box it returns.
Vec_remove(W, i) ==
    IF i >= Len(W.particles) THEN [W EXCEPT !.status = "panicked"]
    ELSE [dealloc(W, W.particles[i + 1].ptr, ParticleSize)
            EXCEPT !.particles = RemoveAt(@, i),
                   !.removed   = Append(@, W.particles[i + 1])]

\* Vec::shrink_to_fit: nothing when full; frees the buffer when empty; otherwise
\* reallocates it to the length.
Vec_shrink_to_fit(W) ==
    LET len == Len(W.particles)
        cap == W.buf.cap
    IN IF cap <= len THEN W
       ELSE IF len = 0
            THEN [dealloc(W, W.buf.ptr, cap * PtrSize) EXCEPT !.buf = [ptr |-> 0, cap |-> 0]]
       ELSE LET W1 == realloc(W, W.buf.ptr, cap * PtrSize, len * PtrSize)
            IN IF W1.ret = 0 THEN Abort(W1)
               ELSE [W1 EXCEPT !.buf = [ptr |-> W1.ret, cap |-> len]]

\* ---------------------------------------------------------------- World

None == [some |-> FALSE, i |-> 0]

Some(i) == [some |-> TRUE, i |-> i]

World_new(w, h) ==
    [ current_turn |-> 0,
      particles    |-> <<>>,
      height       |-> h,
      width        |-> w,
      buf          |-> [ptr |-> 0, cap |-> 0],
      heap         |-> <<>>,
      log          |-> <<>>,
      status       |-> "running",
      scan         |-> <<>>,
      fail         |-> 0,
      allocs       |-> 0,
      ret          |-> 0,
      box          |-> [ptr |-> 0],
      removed      |-> <<>>,
      grown        |-> 0 ]

\* One iteration of add_shapes.
add_one(W, d) ==
    LET particle == Particle_new(W, d)
        W1 == Box_new(W, particle)
    IN IF W1.status # "running" THEN W1 ELSE Vec_push(W1, W1.box)

RECURSIVE add_shapes_loop(_, _, _)
add_shapes_loop(W, k, draws) ==
    IF k = 0 \/ W.status # "running" THEN W
    ELSE add_shapes_loop(add_one(W, Head(draws)), k - 1, Tail(draws))

add_shapes(W, n, draws) == add_shapes_loop(W, Abs(n), draws)

\* to_delete without the break: the loop runs on, so the last invisible particle wins.
to_delete_no_break(ps) ==
    LET inv == {i \in 1..Len(ps) : F32Lt(Alpha(ps[i]), Invisible)}
    IN IF inv = {} THEN [some |-> FALSE, i |-> 0]
       ELSE [some |-> TRUE, i |-> (CHOOSE i \in inv : \A j \in inv : i >= j) - 1]

\* The inner for of remove_shapes: it breaks after its first iteration, so only
\* index 0 is ever looked at.
to_delete(ps) ==
    IF ps = <<>> THEN None
    ELSE IF F32Lt(Alpha(ps[1]), Invisible) THEN Some(0)
    ELSE None

\* pop() instead of remove(0): the youngest particle goes.
remove_one_back(W) ==
    IF W.particles = <<>> THEN [W EXCEPT !.status = "panicked"]
    ELSE Vec_remove(W, Len(W.particles) - 1)

\* One iteration of remove_shapes.
remove_one(W) ==
    LET td == to_delete(W.particles)
    IN IF td.some THEN Vec_remove(W, td.i) ELSE Vec_remove(W, 0)

\* The policy as the comment states it: the first invisible particle anywhere,
\* and the oldest when there is none.
scan_to_delete(ps) ==
    LET inv == {i \in 1..Len(ps) : F32Lt(Alpha(ps[i]), Invisible)}
    IN IF inv = {} THEN None
       ELSE Some((CHOOSE i \in inv : \A j \in inv : i <= j) - 1)

scan_remove_one(ps) ==
    LET td == scan_to_delete(ps)
    IN IF ps = <<>> THEN ps
       ELSE IF td.some THEN RemoveAt(ps, td.i) ELSE RemoveAt(ps, 0)

RECURSIVE remove_shapes_loop(_, _)
remove_shapes_loop(W, k) ==
    IF k = 0 \/ W.status # "running" THEN W
    ELSE LET W1 == remove_one(W)
         IN remove_shapes_loop(
                IF W1.status # "running" THEN W1
                ELSE [W1 EXCEPT !.scan = scan_remove_one(@)], k - 1)

remove_shapes(W, n) == remove_shapes_loop(W, Abs(n))

RECURSIVE Aged(_, _)
\* A boxed particle after k calls of update.
Aged(b, k) ==
    IF k = 0 THEN b
    ELSE IF k = 1 THEN [b EXCEPT !.p = Particle_update(@), !.updates = @ + 1]
    ELSE LET half == Aged(b, k \div 2)
         IN IF half.updates < 0 THEN half ELSE Aged(half, k - (k \div 2))

\* shape.update() on a boxed particle.
shape_update(b) == Aged(b, 1)

\* The loop over &mut self.particles[1..]: the front particle is skipped.
update_all_but_first(ps) ==
    [i \in 1..Len(ps) |-> IF i = 1 THEN ps[i] ELSE shape_update(ps[i])]

update_all(ps) == [i \in 1..Len(ps) |-> shape_update(ps[i])]

\* update whose loop over the particles runs before the spawn / despawn.
World_update_early(W, n, draws) ==
    LET W0 == [W EXCEPT !.particles = update_all(@), !.scan = update_all(@)]
        W1 == IF n > 0 THEN add_shapes(W0, n, draws) ELSE remove_shapes(W0, n)
        W2 == IF W1.status # "running" THEN W1 ELSE Vec_shrink_to_fit(W1)
    IN IF W2.status # "running" THEN W2
       ELSE [W2 EXCEPT !.current_turn = @ + 1]

\* World::update with the draw n of gen_range(-3..=3).
World_update(W, n, draws) ==
    LET W1 == IF n > 0 THEN add_shapes(W, n, draws) ELSE remove_shapes(W, n)
        W2 == IF W1.status # "running" THEN W1 ELSE Vec_shrink_to_fit(W1)
    IN IF W2.status # "running" THEN W2
       ELSE [W2 EXCEPT !.particles    = update_all(@),
                       !.scan         = update_all(@),
                       !.current_turn = @ + 1]

\* ---------------------------------------------------------------- the state machine

\* The world of the variables, at the start of an operation.
World(fail) ==
    [ current_turn |-> current_turn,
      particles    |-> particles,
      height       |-> height,
      width        |-> width,
      buf          |-> buf,
      heap         |-> heap,
      log          |-> <<>>,
      status       |-> status,
      scan         |-> scan,
      fail         |-> fail,
      allocs       |-> 0,
      ret          |-> 0,
      box          |-> [ptr |-> 0],
      removed      |-> <<>>,
      grown        |-> 0 ]

Install(W, op, n) ==
    /\ current_turn' = W.current_turn
    /\ particles' = W.particles
    /\ height' = W.height
    /\ width' = W.width
    /\ buf' = W.buf
    /\ heap' = W.heap
    /\ log' = W.log
    /\ status' = W.status
    /\ scan' = W.scan
    /\ last' = [op |-> op, n |-> n, removed |-> W.removed, grown |-> W.grown]

RECURSIVE Idle(_, _)
\* k ticks whose draw is 0.
Idle(W, k) ==
    IF k = 0 THEN W
    ELSE IF k = 1
         THEN World_update([W EXCEPT !.log = <<>>, !.allocs = 0, !.grown = 0], 0, <<>>)
    ELSE LET half == Idle(W, k \div 2)
         IN IF half.status # "running" THEN half ELSE Idle(half, k - (k \div 2))

\* main: World::new(1280.0, 960.0).
MainWorld == World_new(Fx(1280), Fx(960))

\* Which allocation request of an operation the platform allocator refuses:
\* none, the first or the second.
FailPoints == {0, 1, 2}

\* The arguments of a direct call.
CallArgs == 0..MaxCall

Start(W, op, n) ==
    /\ current_turn = W.current_turn
    /\ particles = W.particles
    /\ height = W.height
    /\ width = W.width
    /\ buf = W.buf
    /\ heap = W.heap
    /\ log = W.log
    /\ status = W.status
    /\ scan = W.scan
    /\ last = [op |-> op, n |-> n, removed |-> <<>>, grown |-> 0]

\* The world as main constructs it.
Init == Start(MainWorld, "new", 0)

\* Worlds that were populated by add_shapes and then ticked AgedTurns times with
\* a draw of 0, which brings the first particles to the edge of invisibility.
InitAged ==
    \E n \in 1..MaxCall :
        \E draws \in [1..n -> OneDraw(MainWorld.width)] :
            Start(Idle(add_shapes(MainWorld, n, draws), AgedTurns), "update", 0)

\* update may still be called: fewer than MaxTurn ticks since the initial state.
TurnOpen ==
    \/ current_turn < MaxTurn
    \/ (AgedTurns <= current_turn /\ current_turn < AgedTurns + MaxTurn)

AddShapes ==
    /\ status = "running"
    /\ \E n \in CallArgs, fail \in FailPoints :
        /\ Len(particles) + Abs(n) <= MaxParticles
        /\ \E draws \in [1..Abs(n) -> OneDraw(width)] :
              Install(add_shapes(World(fail), n, draws), "add_shapes", n)

RemoveShapes ==
    /\ status = "running"
    /\ \E n \in CallArgs :
          Install(remove_shapes(World(0), n), "remove_shapes", n)

Update ==
    /\ status = "running"
    /\ TurnOpen
    /\ \E n \in -3..3, fail \in FailPoints :
        /\ n > 0 => Len(particles) + n <= MaxParticles
        /\ \E draws \in [1..Max(n, 0) -> OneDraw(width)] :
              Install(World_update(World(fail), n, draws), "update", n)

Next == AddShapes \/ RemoveShapes \/ Update

Spec == Init /\ [][Next]_vars

SpecAged == InitAged /\ [][Next]_vars

\* main: World::new, add_shapes(N) once, then update in the event loop.  N is
\* 1000 in main; here it is any N up to MainShapes, and the particles' draws vary.
MainAddShapes ==
    /\ status = "running"
    /\ last.op = "new"
    /\ \E n \in 0..MainShapes :
          \E draws \in [1..n -> ParticleDraws(width)] :
              Install(add_shapes(World(0), n, draws), "add_shapes", n)

MainUpdate ==
    /\ status = "running"
    /\ last.op # "new"
    /\ current_turn < MaxTurn
    /\ \E n \in -3..3 :
        /\ n > 0 => Len(particles) + n <= MainShapes
        /\ \E draws \in [1..Max(n, 0) -> ParticleDraws(width)] :
              Install(World_update(World(0), n, draws), "update", n)

\* One particle followed alone: created by add_shapes(1), updated by
\* Particle::update, removed by remove_shapes(1), created again.
FadeAdd ==
    /\ status = "running"
    /\ particles = <<>>
    /\ \E draws \in [1..1 -> ParticleDraws(width)] :
          Install(add_shapes(World(0), 1, draws), "add_shapes", 1)

FadeUpdate ==
    /\ status = "running"
    /\ particles # <<>>
    /\ particles[1].updates < MaxUpdates
    /\ particles' = update_all(particles)
    /\ scan' = update_all(scan)
    /\ log' = <<>>
    /\ last' = [op |-> "particle_update", n |-> 0, removed |-> <<>>, grown |-> 0]
    /\ UNCHANGED <<current_turn, height, width, buf, heap, status>>

FadeRemove ==
    /\ status = "running"
    /\ particles # <<>>
    /\ Install(remove_shapes(World(0), 1), "remove_shapes", 1)

NextFade == FadeAdd \/ FadeUpdate \/ FadeRemove

SpecFade == Init /\ [][NextFade]_vars

\* Collections as a test of remove_shapes builds them: boxes made by add_shapes
\* whose particles are then new or faded below the threshold, in any order.
InitBuilt ==
    \E n \in 1..MaxParticles :
        \E draws \in [1..n -> OneDraw(MainWorld.width)],
           ages \in [1..n -> {0, AgedTurns + MaxTurn}] :
            LET W == add_shapes(MainWorld, n, draws)
                ps == [i \in 1..n |-> Aged(W.particles[i], ages[i])]
            IN Start([W EXCEPT !.particles = ps, !.scan = ps], "built", n)

SpecBuilt == InitBuilt /\ [][Next]_vars

NextMain == MainAddShapes \/ MainUpdate

SpecMain == Init /\ [][NextMain]_vars

\* ---------------------------------------------------------------- claims

Running(op) == last.op = op /\ status = "running"

Visible(b) == ~F32Lt(Alpha(b), Invisible)

Ptrs(ps) == [i \in 1..Len(ps) |-> ps[i].ptr]

IsAlloc(e) == e.call = "alloc"

IsDealloc(e) == e.call = "dealloc"

RECURSIVE Telemetry(_)
\* The lines printed to stderr by the calls of a log, in order.
Telemetry(l) == IF l = <<>> THEN <<>> ELSE Head(l).stderr \o Telemetry(Tail(l))

\* The boxes the last add_shapes(n) pushed.
NewBoxes == SubSeq(particles, Len(particles) - Abs(last.n) + 1, Len(particles))

\* C1 (as stated): in every tick the population changes by exactly the draw n:
\* it grows by n when n > 0, shrinks by |n| when n < 0 and stays when n = 0.
\* Ticks the platform's allocation failure aborts are left out.
C1_DeltaIsDraw ==
    [][(last'.op = "update" /\ status' # "aborted")
         => Len(particles') - Len(particles) = last'.n]_vars

\* C3 (as stated): from World::new, add_shapes and ticks, update never asks
\* remove_shapes for more particles than there are, so no tick panics.
C3_UpdateNeverPanics == ~(last.op = "update" /\ status = "panicked")

C4_OnlyBoxesAllocate ==
    /\ Running("add_shapes")
         => /\ Len(Telemetry(log)) = Abs(last.n)
            /\ \A i \in 1..Len(Telemetry(log)) : Telemetry(log)[i] = ParticleSize
    /\ Running("remove_shapes")
         => /\ Len(SelectSeq(log, IsDealloc)) = Abs(last.n)
            /\ Telemetry(log) = <<>>

\* C4 (amended): add_shapes(n) that completes prints one allocation record of one
\* particle's size for each of its n boxes, and one more record each time the
\* Vec's buffer grew, sized for the new capacity; remove_shapes(n) that
\* completes makes exactly n deallocations, of the removed boxes, and no allocation.
C4_BoxesAndGrowth ==
    /\ Running("add_shapes")
         => /\ Len(Telemetry(log)) = Abs(last.n) + last.grown
            /\ Len(SelectSeq(log, IsAlloc)) = Abs(last.n) + last.grown
            /\ \A i \in 1..Len(NewBoxes) :
                  \E j \in 1..Len(log) :
                      /\ IsAlloc(log[j])
                      /\ log[j].ret = NewBoxes[i].ptr
                      /\ log[j].size = ParticleSize
                      /\ log[j].stderr = <<ParticleSize>>
            /\ last.grown > 0 =>
                  \E j \in 1..Len(log) :
                      /\ IsAlloc(log[j])
                      /\ log[j].ret = buf.ptr
                      /\ log[j].size = buf.cap * PtrSize
    /\ Running("remove_shapes")
         => /\ Len(log) = Abs(last.n)
            /\ Telemetry(log) = <<>>
            /\ Len(last.removed) = Abs(last.n)
            /\ \A i \in 1..Len(log) :
                  /\ IsDealloc(log[i])
                  /\ log[i].size = ParticleSize
                  /\ log[i].ptr = last.removed[i].ptr

\* C4's case: an add_shapes(2) that also had to grow the buffer, so three records.
C4_Witness ==
    /\ Running("add_shapes")
    /\ last.n = 2
    /\ last.grown = 1
    /\ Len(Telemetry(log)) = 3

\* C5: in main's scenario, add_shapes(N) on the new world leaves exactly N
\* particles, each at y = height and 0 <= x <= width; and when N >= 3 and the
\* first tick draws -3, the tick leaves N - 3 particles: the three at the front
\* were removed, front first, and the others keep their order.
C5_MainScenario ==
    /\ [](Running("add_shapes")
            => /\ Len(particles) = last.n
               /\ \A i \in 1..Len(particles) :
                     /\ particles[i].p.position[2] = height
                     /\ particles[i].p.position[1] >= 0
                     /\ particles[i].p.position[1] <= width)
    /\ [][(last.op = "add_shapes" /\ Len(particles) >= 3
             /\ last'.op = "update" /\ last'.n = -3)
            => /\ status' = "running"
               /\ Len(particles') = Len(particles) - 3
               /\ Ptrs(particles') = SubSeq(Ptrs(particles), 4, Len(particles))
               /\ last'.removed = SubSeq(particles, 1, 3)]_vars

\* C5's case: after add_shapes(5) and a first tick that drew -3, two particles
\* are left, spawned at different x.
C5_Witness ==
    /\ Running("update")
    /\ last.n = -3
    /\ current_turn = 1
    /\ Len(last.removed) = 3
    /\ Len(particles) = 2
    /\ particles[1].p.position[1] # particles[2].p.position[1]

\* 0.99 * 0.995^k enclosed in [lo, hi] / 2^30: x * 0.995 = x - x / 200.
RefStep(r) == [lo |-> r.lo - ((r.lo + 199) \div 200), hi |-> r.hi - (r.hi \div 200)]

RECURSIVE RefExtend(_, _)
RefExtend(t, k) ==
    IF k = 0 THEN t
    ELSE IF k = 1 THEN Append(t, RefStep(t[Len(t)]))
    ELSE LET half == RefExtend(t, k \div 2)
         IN IF half = <<>> THEN half ELSE RefExtend(half, k - (k \div 2))

\* RefTable[k + 1] encloses 0.99 * 0.995^k, for k up to MaxUpdates.
RefTable ==
    LET q == DivBits(99, 100, 30, 0).q
    IN RefExtend(<<[lo |-> q, hi |-> q + 1]>>, MaxUpdates)

\* An alpha in units of 2^-30 (exact down to 2^-7).
AlphaFix(a) == IF a.e >= -6 THEN a.m * 2^(a.e + 6) ELSE a.m \div 2^(-6 - a.e)

\* The tolerance of the closed form: 2^-20.
Tolerance == 2^10

\* C6: a particle's alpha is in (0, 1], is within 2^-20 of 0.99 * 0.995^k after
\* k updates, and no step raises the alpha of a particle that stays in the
\* collection.
C6_AlphaFades ==
    /\ [](\A i \in 1..Len(particles) :
            LET a == Alpha(particles[i])
                r == RefTable[particles[i].updates + 1]
            IN /\ a.m > 0
               /\ F32Le(a, F32One)
               /\ AlphaFix(a) >= r.lo - Tolerance
               /\ AlphaFix(a) <= r.hi + Tolerance)
    /\ [][\A i \in 1..Len(particles'), j \in 1..Len(particles) :
             particles'[i].ptr = particles[j].ptr
               => F32Le(Alpha(particles'[i]), Alpha(particles[j]))]_vars

\* C6's case: a particle that Particle::update has faded below the threshold.
C6_Witness ==
    /\ last.op = "particle_update"
    /\ particles # <<>>
    /\ particles[1].updates = MaxUpdates
    /\ ~Visible(particles[1])

\* C7: every alloc that reached the ReportingAllocator made exactly one
\* System.alloc call for the same size, printed exactly one record with that
\* size, and returned the pointer System returned, null included; every
\* dealloc made exactly one System.dealloc call and printed nothing.
C7_AllocDelegates ==
    \A i \in 1..Len(log) :
        LET e == log[i]
        IN /\ Len(e.system) = 1
           /\ e.system[1].size = e.size
           /\ IsAlloc(e) => /\ e.system[1].fn = "alloc"
                             /\ e.stderr = <<e.size>>
                             /\ e.ret = e.system[1].ptr
           /\ IsDealloc(e) => /\ e.system[1].fn = "dealloc"
                               /\ e.system[1].ptr = e.ptr
                               /\ e.stderr = <<>>

\* C7's case: System returned null; alloc printed its record and returned null.
C7_Witness ==
    /\ status = "aborted"
    /\ \E i \in 1..Len(log) :
          /\ IsAlloc(log[i])
          /\ log[i].system[1].ptr = 0
          /\ log[i].ret = 0
          /\ log[i].stderr = <<log[i].size>>

\* C8: a completed tick raises current_turn by one and leaves every particle
\* that was there before and is still there updated exactly once, and every
\* particle it spawned updated exactly once too; add_shapes and remove_shapes
\* change neither current_turn nor any particle that stays; so a particle has
\* been updated once for each tick completed since its spawn.
C8_TickOrder ==
    /\ [](\A i \in 1..Len(particles) :
            particles[i].updates = current_turn - particles[i].born)
    /\ [][(last'.op = "update" /\ status' = "running")
            => /\ current_turn' = current_turn + 1
               /\ Len(particles') = Len(particles) - Len(last'.removed) + Max(last'.n, 0)
               /\ \A i \in 1..Len(particles') :
                     IF \E j \in 1..Len(particles) : particles[j].ptr = particles'[i].ptr
                     THEN \E j \in 1..Len(particles) :
                            /\ particles[j].ptr = particles'[i].ptr
                            /\ particles'[i].updates = particles[j].updates + 1
                            /\ particles'[i].p = Particle_update(particles[j].p)
                     ELSE /\ particles'[i].updates = 1
                          /\ particles'[i].born = current_turn]_vars
    /\ [][last'.op \in {"add_shapes", "remove_shapes"}
            => /\ current_turn' = current_turn
               /\ \A i \in 1..Len(particles'), j \in 1..Len(particles) :
                     particles'[i].ptr = particles[j].ptr => particles'[i] = particles[j]]_vars

\* C8's case: two ticks completed, the second spawned: a particle of the first
\* tick updated twice and one of the second updated once.
C8_Witness ==
    /\ Running("update")
    /\ current_turn = 2
    /\ last.n > 0
    /\ \E i, j \in 1..Len(particles) :
          /\ particles[i].born = 0 /\ particles[i].updates = 2
          /\ particles[j].born = 1 /\ particles[j].updates = 1

\* C9: the collection is ordered by age: a particle has been updated at least
\* as often as every particle behind it, and its alpha is at most theirs.
C9_OrderedByAge ==
    \A i, j \in 1..Len(particles) :
        i < j => /\ particles[i].updates >= particles[j].updates
                 /\ F32Le(Alpha(particles[i]), Alpha(particles[j]))

\* C9's case: an invisible particle at the front and a younger, visible one at
\* the back.
C9_Witness ==
    /\ Len(particles) >= 2
    /\ ~Visible(particles[1])
    /\ Visible(particles[Len(particles)])
    /\ particles[1].updates > particles[Len(particles)].updates

\* C10: the collection is what the policy of the comment (remove the first
\* invisible particle anywhere, else the oldest) would have left after the same
\* calls and draws, and no state has a visible front with an invisible
\* particle behind it.
C10_SameAsFullScan ==
    /\ scan = particles
    /\ ~(/\ particles # <<>>
          /\ Visible(particles[1])
          /\ \E j \in 2..Len(particles) : ~Visible(particles[j]))

\* C10's case: an invisible front particle was removed while a visible one
\* stays behind, and both policies left the same collection.
C10_Witness ==
    /\ status = "running"
    /\ last.removed # <<>>
    /\ ~Visible(last.removed[1])
    /\ particles # <<>>
    /\ Visible(particles[Len(particles)])
    /\ scan = particles

====
